---- MODULE Spec2Model ----
(***************************************************************************)
(* A model of the workdays crate (src/src/lib.rs): the WorkCalendar with   *)
(* its set of work weekdays and its set of holiday dates, the mutators,    *)
(* the bulk setter set_work_days, the construction from a configuration,   *)
(* and the two date walks compute_end_date and work_days_between.          *)
(*                                                                         *)
(* A NaiveDate is modelled by its day number relative to Monday            *)
(* 2023-08-21 (day 0), so that `date + Duration::days(1)` is d + 1 and     *)
(* `a.signed_duration_since(b)` is a - b.  The dates of the model lie far  *)
(* inside the range of NaiveDate; the range limits of NaiveDate are not    *)
(* modelled.  Strings are TLA+ strings, taken apart character by           *)
(* character with SubSeq.  An Option is a sequence of length 0 or 1.       *)
(***************************************************************************)
EXTENDS Integers, Sequences, FiniteSets, TLC

VARIABLES
    work_days,       \* WorkCalendar.work_days : HashSet<Weekday>
    holidays,        \* WorkCalendar.holidays  : HashSet<NaiveDate>
    call,            \* the operation called last, with its arguments
    ret,             \* what that operation returned
    pc,              \* "idle", or "walk": inside compute_end_date, at the head of its loop
    current_date,    \* local of compute_end_date
    remaining_days   \* local of compute_end_date

vars == <<work_days, holidays, call, ret, pc, current_date, remaining_days>>

----------------------------------------------------------------------------
(* Bounds of the model *)

\* compute_end_date is called with days_worked in -1 .. MaxDays
MaxDays == 3
\* start dates and end dates of the two walks are the days 0 .. MaxDate
MaxDate == 3
\* add_holiday and remove_holiday are called with the days 0 .. MaxHoliday
MaxHoliday == 1

StartDates == 0 .. MaxDate
HolidayDates == 0 .. MaxHoliday
DaysWorked == -1 .. MaxDays

----------------------------------------------------------------------------
(* Option, Weekday, NaiveDate *)

None == << >>
Some(x) == << x >>
\* the elements an Option holds (what filter_map keeps of it)
OptSet(o) == { o[i] : i \in 1 .. Len(o) }

WeekSeq == << "Mon", "Tue", "Wed", "Thu", "Fri", "Sat", "Sun" >>
Weekdays == { WeekSeq[i] : i \in 1 .. Len(WeekSeq) }

\* NaiveDate::weekday(): day 0 is Monday 2023-08-21
weekday(d) == WeekSeq[(d % Len(WeekSeq)) + 1]

----------------------------------------------------------------------------
(* Strings: to_lowercase, trim, split(',') *)

UpperChars == "ABCDEFGHIJKLMNOPQRSTUVWXYZ"
LowerChars == "abcdefghijklmnopqrstuvwxyz"

CharAt(s, i) == SubSeq(s, i, i)

UpperSet == { CharAt(UpperChars, i) : i \in 1 .. Len(UpperChars) }

\* the lower-case letter of each upper-case letter
LowerOf ==
    [ c \in UpperSet |->
        CharAt(LowerChars, CHOOSE i \in 1 .. Len(UpperChars) : CharAt(UpperChars, i) = c) ]

LowerChar(c) == IF c \in UpperSet THEN LowerOf[c] ELSE c

RECURSIVE to_lowercase(_)
to_lowercase(s) ==
    IF Len(s) = 0 THEN ""
    ELSE LowerChar(CharAt(s, 1)) \o to_lowercase(SubSeq(s, 2, Len(s)))

IsWhitespace(c) == c \in { " ", "\t" }

RECURSIVE trim_start(_)
trim_start(s) ==
    IF Len(s) > 0 /\ IsWhitespace(CharAt(s, 1))
    THEN trim_start(SubSeq(s, 2, Len(s)))
    ELSE s

RECURSIVE trim_end(_)
trim_end(s) ==
    IF Len(s) > 0 /\ IsWhitespace(CharAt(s, Len(s)))
    THEN trim_end(SubSeq(s, 1, Len(s) - 1))
    ELSE s

trim(s) == trim_end(trim_start(s))

\* s.split(','): the pieces between the commas, the empty ones included
RECURSIVE split_from(_, _, _)
split_from(s, from, i) ==
    IF i > Len(s) THEN << SubSeq(s, from, Len(s)) >>
    ELSE IF CharAt(s, i) = ","
         THEN << SubSeq(s, from, i - 1) >> \o split_from(s, i + 1, i + 1)
         ELSE split_from(s, from, i + 1)

split(s) == split_from(s, 1, 1)

----------------------------------------------------------------------------
(* parse_weekday *)

parse_weekday(day) ==
    LET s == to_lowercase(day)
    IN  CASE s \in { "monday", "mon" }    -> Some("Mon")
          [] s \in { "tuesday", "tue" }   -> Some("Tue")
          [] s \in { "wednesday", "wed" } -> Some("Wed")
          [] s \in { "thursday", "thu" }  -> Some("Thu")
          [] s \in { "friday", "fri" }    -> Some("Fri")
          [] s \in { "saturday", "sat" }  -> Some("Sat")
          [] s \in { "sunday", "sun" }    -> Some("Sun")
          [] OTHER                        -> None

----------------------------------------------------------------------------
(* Results *)

Unit == [kind |-> "Unit"]
Pending == [kind |-> "Pending"]
Ok == [kind |-> "Ok"]
Err(msg) == [kind |-> "Err", msg |-> msg]
OkEnd(end_date, calendar_duration) ==
    [kind |-> "Ok", end_date |-> end_date, calendar_duration |-> calendar_duration]
Count(n) == [kind |-> "Count", value |-> n]

NegativeDaysMsg == "days_worked must be non-negative"
NoWorkDaysMsg == "No work days defined"
NoValidWorkDaysMsg == "No valid work days provided"

----------------------------------------------------------------------------
(* WorkCalendar: queries and the two walks, as functions of the calendar *)

is_work_day(wd, day) == day \in wd

is_holiday(hol, date) == date \in hol

\* the test both walks make of a date: it is worked
counts(wd, hol, date) == is_work_day(wd, weekday(date)) /\ ~is_holiday(hol, date)

\* walk_entry with the start date counted whether or not it is worked
walk_entry_always_counts(wd, hol, start_date, days_worked) ==
    [ current |-> start_date, remaining |-> days_worked - 1 ]

\* compute_end_date, from the two locals' initialisation to the head of the loop
walk_entry(wd, hol, start_date, days_worked) ==
    [ current   |-> start_date,
      remaining |-> IF counts(wd, hol, start_date) THEN days_worked - 1 ELSE days_worked ]

\* walk_body with the holidays left out of the test
walk_body_ignores_holidays(wd, hol, st) ==
    LET next_date == st.current + 1
    IN  [ current   |-> next_date,
          remaining |-> IF is_work_day(wd, weekday(next_date))
                        THEN st.remaining - 1 ELSE st.remaining ]

\* walk_body stepping a day back instead of forward
walk_body_backwards(wd, hol, st) ==
    LET next_date == st.current - 1
    IN  [ current   |-> next_date,
          remaining |-> IF counts(wd, hol, next_date) THEN st.remaining - 1 ELSE st.remaining ]

\* walk_body with the date left where it is
walk_body_stays(wd, hol, st) ==
    [ current   |-> st.current,
      remaining |-> IF counts(wd, hol, st.current) THEN st.remaining - 1 ELSE st.remaining ]

\* one turn of the loop of compute_end_date
walk_body(wd, hol, st) ==
    LET next_date == st.current + 1
    IN  [ current   |-> next_date,
          remaining |-> IF counts(wd, hol, next_date) THEN st.remaining - 1 ELSE st.remaining ]

\* walk_continues with >= for >
walk_continues_at_zero(st) == st.remaining >= 0

\* the condition of the loop of compute_end_date
walk_continues(st) == st.remaining > 0

\* the loop of compute_end_date, run to its end
RECURSIVE walk_loop(_, _, _)
walk_loop(wd, hol, st) ==
    IF walk_continues(st) THEN walk_loop(wd, hol, walk_body(wd, hol, st)) ELSE st

\* walk_checks with the two checks in the other order
walk_checks_empty_first(wd, days_worked) ==
    IF wd = {} THEN Some(Err(NoWorkDaysMsg))
    ELSE IF days_worked < 0 THEN Some(Err(NegativeDaysMsg))
    ELSE None

\* the precondition checks of compute_end_date: the error returned, if any
walk_checks(wd, days_worked) ==
    IF days_worked < 0 THEN Some(Err(NegativeDaysMsg))
    ELSE IF wd = {} THEN Some(Err(NoWorkDaysMsg))
    ELSE None

\* the end of compute_end_date
walk_result(start_date, st) == OkEnd(st.current, st.current - start_date)

compute_end_date(wd, hol, start_date, days_worked) ==
    LET e == walk_checks(wd, days_worked)
    IN  IF e # None THEN e[1]
        ELSE walk_result(start_date,
                         walk_loop(wd, hol, walk_entry(wd, hol, start_date, days_worked)))

RECURSIVE between_loop(_, _, _, _, _)
between_loop(wd, hol, current, end_date, n) ==
    IF current <= end_date
    THEN between_loop(wd, hol, current + 1, end_date,
                      IF counts(wd, hol, current) THEN n + 1 ELSE n)
    ELSE n

\* work_days_between with the end date left out of the range
work_days_between_exclusive(wd, hol, start_date, end_date) ==
    between_loop(wd, hol, start_date, end_date - 1, 0)

work_days_between(wd, hol, start_date, end_date) ==
    between_loop(wd, hol, start_date, end_date, 0)

----------------------------------------------------------------------------
(* new, From<WorkCalendarConfig> *)

\* filter_map(f).collect() into a HashSet, of a sequence of strings
parsed_days(items) == UNION { OptSet(parse_weekday(items[i])) : i \in 1 .. Len(items) }

trimmed(items) == [ i \in 1 .. Len(items) |-> trim(items[i]) ]

new == [ work_days |-> { "Mon", "Tue", "Wed", "Thu", "Fri" }, holidays |-> {} ]

\* NaiveDate::parse_from_str(s, "%Y-%m-%d").ok(), on the date strings the
\* configurations of the model hold
parse_date(s) ==
    CASE s = "2023-08-21" -> Some(0)
      [] s = "2023-08-22" -> Some(1)
      [] s = "2023-08-23" -> Some(2)
      [] s = "2023-08-28" -> Some(7)
      [] OTHER            -> None

parsed_dates(items) == UNION { OptSet(parse_date(items[i])) : i \in 1 .. Len(items) }

\* from_config keeping the default work days when no name of the list parses
from_config_keeps_default(config) ==
    [ work_days |-> IF config.work_days # None /\ parsed_days(config.work_days[1]) # {}
                    THEN parsed_days(config.work_days[1])
                    ELSE new.work_days,
      holidays  |-> IF config.holidays # None
                    THEN parsed_dates(config.holidays[1])
                    ELSE new.holidays ]

\* config.work_days and config.holidays are Options of lists of strings
from_config(config) ==
    [ work_days |-> IF config.work_days # None
                    THEN parsed_days(config.work_days[1])
                    ELSE new.work_days,
      holidays  |-> IF config.holidays # None
                    THEN parsed_dates(config.holidays[1])
                    ELSE new.holidays ]

----------------------------------------------------------------------------
(* The inputs of the operations *)

\* the texts set_work_days is called with
BaseTexts ==
    { "Monday,Wednesday,Friday", " sat , SUN", "mon,xyz", "xyz", "", "TUE," }

\* the work-day lists and the holiday lists of the configurations
WorkDayLists ==
    { None,
      Some(<< >>),
      Some(<< "Monday", "Fri" >>),
      Some(<< "lundi", "mardi" >>),
      Some(<< " mon", "Sat,Sun" >>),
      Some(<< "sunday", "bogus" >>) }

HolidayLists ==
    { None,
      Some(<< "2023-08-22" >>),
      Some(<< "2023-08-21", "2023-13-01", "tomorrow" >>) }

Configs == [ work_days : WorkDayLists, holidays : HolidayLists ]

\* the names of a list, as one comma-separated text
RECURSIVE join(_)
join(items) ==
    IF Len(items) = 0 THEN ""
    ELSE IF Len(items) = 1 THEN items[1]
    ELSE items[1] \o "," \o join(Tail(items))

Texts == BaseTexts \cup { join(l[1]) : l \in WorkDayLists \ { None } }

----------------------------------------------------------------------------
(* set_work_days *)

\* days.split(',').filter_map(|day| parse_weekday(day.trim())).collect(): it does
\* not depend on the calendar, and is computed once for each text of the model
new_work_days_of == [ days \in Texts |-> parsed_days(trimmed(split(days))) ]

\* set_work_days adding the parsed days to the work days there are
set_work_days_merges(wd, days) ==
    LET new_work_days == new_work_days_of[days]
    IN  IF new_work_days = {}
        THEN [ ret |-> Err(NoValidWorkDaysMsg), work_days |-> wd ]
        ELSE [ ret |-> Ok, work_days |-> wd \cup new_work_days ]

\* set_work_days assigning work_days before it tests for the empty set
set_work_days_assigns_first(wd, days) ==
    LET new_work_days == new_work_days_of[days]
    IN  IF new_work_days = {}
        THEN [ ret |-> Err(NoValidWorkDaysMsg), work_days |-> new_work_days ]
        ELSE [ ret |-> Ok, work_days |-> new_work_days ]

\* the result of set_work_days and the work_days it leaves
set_work_days(wd, days) ==
    LET new_work_days == new_work_days_of[days]
    IN  IF new_work_days = {}
        THEN [ ret |-> Err(NoValidWorkDaysMsg), work_days |-> wd ]
        ELSE [ ret |-> Ok, work_days |-> new_work_days ]

----------------------------------------------------------------------------
(* The state machine *)

\* the locals of compute_end_date, outside a call of it
NoWalk == /\ pc' = "idle"
          /\ current_date' = 0
          /\ remaining_days' = 0

InitNew ==
    /\ work_days = new.work_days
    /\ holidays = new.holidays
    /\ call = [op |-> "new"]

InitFromConfig ==
    \E config \in Configs :
        /\ work_days = from_config(config).work_days
        /\ holidays = from_config(config).holidays
        /\ call = [op |-> "from_config", config |-> config]

Init ==
    /\ InitNew \/ InitFromConfig
    /\ ret = Ok
    /\ pc = "idle"
    /\ current_date = 0
    /\ remaining_days = 0

AddWorkDay(day) ==
    /\ pc = "idle"
    /\ work_days' = work_days \cup { day }
    /\ call' = [op |-> "add_work_day", day |-> day]
    /\ ret' = Unit
    /\ NoWalk
    /\ UNCHANGED holidays

RemoveWorkDay(day) ==
    /\ pc = "idle"
    /\ work_days' = work_days \ { day }
    /\ call' = [op |-> "remove_work_day", day |-> day]
    /\ ret' = Unit
    /\ NoWalk
    /\ UNCHANGED holidays

AddHoliday(date) ==
    /\ pc = "idle"
    /\ holidays' = holidays \cup { date }
    /\ call' = [op |-> "add_holiday", date |-> date]
    /\ ret' = Unit
    /\ NoWalk
    /\ UNCHANGED work_days

RemoveHoliday(date) ==
    /\ pc = "idle"
    /\ holidays' = holidays \ { date }
    /\ call' = [op |-> "remove_holiday", date |-> date]
    /\ ret' = Unit
    /\ NoWalk
    /\ UNCHANGED work_days

SetWorkDays(days) ==
    /\ pc = "idle"
    /\ LET r == set_work_days(work_days, days)
       IN  /\ work_days' = r.work_days
           /\ ret' = r.ret
    /\ call' = [op |-> "set_work_days", days |-> days]
    /\ NoWalk
    /\ UNCHANGED holidays

WorkDaysBetween(start_date, end_date) ==
    /\ pc = "idle"
    /\ call' = [op |-> "work_days_between", start_date |-> start_date, end_date |-> end_date]
    /\ ret' = Count(work_days_between(work_days, holidays, start_date, end_date))
    /\ NoWalk
    /\ UNCHANGED <<work_days, holidays>>

\* compute_end_date is entered: an error is returned at once, or the locals are
\* set, the start date is counted if it is worked, and the loop is reached
ComputeEndDateEnter(start_date, days_worked) ==
    /\ pc = "idle"
    /\ call' = [op |-> "compute_end_date", start_date |-> start_date,
                days_worked |-> days_worked]
    /\ LET e == walk_checks(work_days, days_worked)
           st == walk_entry(work_days, holidays, start_date, days_worked)
       IN  IF e # None
           THEN /\ ret' = e[1]
                /\ NoWalk
           ELSE /\ ret' = Pending
                /\ pc' = "walk"
                /\ current_date' = st.current
                /\ remaining_days' = st.remaining
    /\ UNCHANGED <<work_days, holidays>>

\* the two locals of compute_end_date
walk_state == [current |-> current_date, remaining |-> remaining_days]

\* one turn of the loop
ComputeEndDateStep ==
    /\ pc = "walk"
    /\ walk_continues(walk_state)
    /\ LET st == walk_body(work_days, holidays, walk_state)
       IN  /\ current_date' = st.current
           /\ remaining_days' = st.remaining
    /\ UNCHANGED <<work_days, holidays, call, ret, pc>>

\* the loop is left and the result returned
ComputeEndDateReturn ==
    /\ pc = "walk"
    /\ ~walk_continues(walk_state)
    /\ ret' = walk_result(call.start_date, walk_state)
    /\ pc' = "idle"
    /\ UNCHANGED <<work_days, holidays, call, current_date, remaining_days>>

Next ==
    \/ \E day \in Weekdays : AddWorkDay(day)
    \/ \E day \in Weekdays : RemoveWorkDay(day)
    \/ \E date \in HolidayDates : AddHoliday(date)
    \/ \E date \in HolidayDates : RemoveHoliday(date)
    \/ \E days \in Texts : SetWorkDays(days)
    \/ \E start_date, end_date \in StartDates : WorkDaysBetween(start_date, end_date)
    \/ \E start_date \in StartDates, days_worked \in DaysWorked :
           ComputeEndDateEnter(start_date, days_worked)
    \/ ComputeEndDateStep
    \/ ComputeEndDateReturn

Spec == Init /\ [][Next]_vars

\* a call of compute_end_date, once entered, keeps running
LiveSpec == Spec /\ WF_vars(ComputeEndDateStep) /\ WF_vars(ComputeEndDateReturn)

----------------------------------------------------------------------------
(* The claims *)

\* the date is worked: its weekday is a work day and it is no holiday
Worked(d) == weekday(d) \in work_days /\ d \notin holidays

\* the worked dates of the inclusive range from a to b
WorkedIn(a, b) == { d \in a .. b : Worked(d) }

\* compute_end_date was called last and has returned a date
Returned ==
    /\ call.op = "compute_end_date"
    /\ pc = "idle"
    /\ ret.kind = "Ok"

\* C1: when compute_end_date returns for days_worked = n >= 1 (work_days not
\* empty), the end date is a worked date, exactly n worked dates lie in the
\* inclusive range from the start date to the end date, which is also what
\* work_days_between counts there, and the span is end date minus start date.
C1_EndDateIsNthWorkedDate ==
    (Returned /\ call.days_worked >= 1) =>
        /\ Worked(ret.end_date)
        /\ Cardinality(WorkedIn(call.start_date, ret.end_date)) = call.days_worked
        /\ work_days_between(work_days, holidays, call.start_date, ret.end_date)
               = call.days_worked
        /\ ret.calendar_duration = ret.end_date - call.start_date

\* a call with n >= 2 whose walk passed a holiday that falls on a work weekday
C1_Witness ==
    /\ Returned
    /\ call.days_worked >= 2
    /\ \E d \in call.start_date .. ret.end_date :
           d \in holidays /\ weekday(d) \in work_days

\* C2 as stated: the end date is never before the start date, and equals it
\* only when days_worked = 0.
C2_EqualOnlyAtZero ==
    Returned =>
        /\ ret.end_date >= call.start_date
        /\ ret.calendar_duration >= 0
        /\ (ret.end_date = call.start_date => call.days_worked = 0)

\* C2 amended: the end date is never before the start date (the span is never
\* negative), and equals it only when days_worked = 0, or when days_worked = 1
\* and the start date is itself a worked date.
C2_EqualOnlyAtZeroOrWorkedStart ==
    Returned =>
        /\ ret.end_date >= call.start_date
        /\ ret.calendar_duration >= 0
        /\ (ret.end_date = call.start_date =>
                \/ call.days_worked = 0
                \/ call.days_worked = 1 /\ Worked(call.start_date))

\* one work day counted from a worked start date: the walk stays on it
C2_Witness ==
    /\ Returned
    /\ call.days_worked = 1
    /\ Worked(call.start_date)
    /\ ret.end_date = call.start_date
    /\ ret.calendar_duration = 0

\* C3: compute_end_date is monotone in days_worked: the end date returned for
\* n2 is not before the end date of any n1 with 0 <= n1 <= n2, for the same
\* calendar and start date.
C3_MonotoneInDaysWorked ==
    Returned =>
        \A n1 \in 0 .. call.days_worked :
            LET r1 == compute_end_date(work_days, holidays, call.start_date, n1)
            IN  /\ r1.kind = "Ok"
                /\ r1.end_date <= ret.end_date
                /\ (n1 = call.days_worked => r1 = ret)

\* a call whose end date is strictly after that of a smaller count
C3_Witness ==
    /\ Returned
    /\ call.days_worked >= 2
    /\ compute_end_date(work_days, holidays, call.start_date, call.days_worked - 1).end_date
           < ret.end_date
    /\ holidays # {}

\* C4: work_days_between counts the dates of the inclusive range whose weekday
\* is a work day and which are no holidays, for every calendar (work_days may
\* be empty); it is 0 when the end date is before the start date, and on a
\* single date it is 1 if the date is worked and 0 otherwise.
C4_BetweenCountsWorkedDates ==
    call.op = "work_days_between" =>
        /\ ret = Count(Cardinality(WorkedIn(call.start_date, call.end_date)))
        /\ (call.end_date < call.start_date => ret.value = 0)
        /\ (call.end_date = call.start_date =>
                ret.value = IF Worked(call.start_date) THEN 1 ELSE 0)

\* a range that holds worked dates and a holiday on a work weekday
C4_Witness ==
    /\ call.op = "work_days_between"
    /\ call.start_date < call.end_date
    /\ ret.value >= 2
    /\ \E d \in call.start_date .. call.end_date :
           d \in holidays /\ weekday(d) \in work_days

\* C8: with work_days not empty, compute_end_date with days_worked = 0 never
\* advances the date and returns the start date with a span of 0, whether or
\* not the start date is worked.
C8_ZeroDaysStaysOnStart ==
    (call.op = "compute_end_date" /\ call.days_worked = 0 /\ work_days # {}) =>
        /\ current_date = call.start_date
        /\ (pc = "walk" => ret = Pending /\ ~walk_continues(walk_state))
        /\ (pc = "idle" => ret = OkEnd(call.start_date, 0))

\* zero days from a start date that is a holiday on a work weekday
C8_Witness ==
    /\ Returned
    /\ call.days_worked = 0
    /\ call.start_date \in holidays
    /\ weekday(call.start_date) \in work_days
    /\ ret = OkEnd(call.start_date, 0)

\* the step is a call of the operation (a call made again with the same
\* arguments on an unchanged calendar changes nothing, and is a stuttering step)
Calls(op) == pc = "idle" /\ call'.op = op

\* C5: compute_end_date with a negative days_worked returns the 'must be
\* non-negative' error on every calendar, also one whose work_days is empty,
\* without reaching the loop and without changing work_days or holidays.
C5_NegativeDaysRejected ==
    [][ (Calls("compute_end_date") /\ call'.days_worked < 0) =>
            /\ ret' = Err(NegativeDaysMsg)
            /\ pc' = "idle"
            /\ work_days' = work_days
            /\ holidays' = holidays ]_vars

\* a negative count on a calendar whose work_days is empty
C5_Witness ==
    /\ call.op = "compute_end_date"
    /\ call.days_worked < 0
    /\ work_days = {}
    /\ holidays # {}
    /\ ret = Err(NegativeDaysMsg)

\* the items of a text of the model: what parse_weekday makes of each
\* comma-separated item, trimmed
item_parses ==
    [ days \in Texts |->
        LET items == split(days)
        IN  [ i \in 1 .. Len(items) |-> parse_weekday(trim(items[i])) ] ]

AllItemsFail(days) == \A i \in DOMAIN item_parses[days] : item_parses[days][i] = None

ItemsParsed(days) ==
    { day \in Weekdays : \E i \in DOMAIN item_parses[days] : item_parses[days][i] = Some(day) }

C7_WorkDaysNeverEmpty == work_days # {}

\* C7 amended: work_days is not empty after new(); add_work_day, add_holiday,
\* remove_holiday and set_work_days (successful or failing) never make a
\* non-empty work_days empty, and work_days is not empty after a successful
\* set_work_days.  (remove_work_day of the last work day, and a configuration
\* whose work-day list is present and holds no name that parses, leave it
\* empty.)
C7_EmptyOnlyByRemoveOrConfig ==
    /\ [](call.op = "new" => work_days # {})
    /\ [][ (work_days # {} /\ work_days' = {}) => Calls("remove_work_day") ]_vars
    /\ [][ (Calls("set_work_days") /\ ret'.kind = "Ok") => work_days' # {} ]_vars

\* a failed set_work_days has left a non-empty work_days in place
C7_Witness ==
    /\ call.op = "set_work_days"
    /\ ret.kind = "Err"
    /\ work_days # {}
    /\ work_days # new.work_days

\* the work-day list of the configuration is present and not empty, and
\* parse_weekday fails on every name of it
NamesAllFail(config) ==
    /\ config.work_days # None
    /\ Len(config.work_days[1]) > 0
    /\ \A i \in 1 .. Len(config.work_days[1]) : parse_weekday(config.work_days[1][i]) = None

\* the calendar was just built from such a configuration
BuiltFromFailingNames == call.op = "from_config" /\ NamesAllFail(call.config)

\* set_work_days is called with the names of that configuration
SameNamesSet == Calls("set_work_days") /\ call'.days = join(call.config.work_days[1])

\* a calendar built from such a configuration has an empty work_days
C9_BuiltEmpty == BuiltFromFailingNames => work_days = {}

\* with an empty work_days, compute_end_date returns the 'no work days
\* defined' error for every days_worked >= 0, and does not reach the loop
C9_NoWorkDaysError ==
    (call.op = "compute_end_date" /\ call.days_worked >= 0 /\ work_days = {}) =>
        ret = Err(NoWorkDaysMsg) /\ pc = "idle"

C10_WalkTerminates ==
    /\ [](pc = "walk" => work_days # {} /\ call.days_worked >= 0)
    /\ (pc = "walk") ~> (pc = "idle" /\ ret.kind = "Ok" /\ remaining_days <= 0)

\* inside the loop, work still to count, past a holiday on a work weekday
C10_Witness ==
    /\ pc = "walk"
    /\ remaining_days > 0
    /\ \E d \in call.start_date .. current_date :
           d \in holidays /\ weekday(d) \in work_days

====
